---------------------------- MODULE Spec2Model ----------------------------
(***************************************************************************)
(* A model of jujuresources: the resource container, the three resource    *)
(* kinds (Resource, URLResource, PyPIResource) with fetch / verify /       *)
(* install, and the fetch / verify orchestration of the package.           *)
(*                                                                         *)
(* Python strings are sequences of one-character strings, so that          *)
(* startswith, split, join, basename and the sidecar file names are        *)
(* computed as the code computes them.  The filesystem is a function from  *)
(* the paths that exist to their entries.                                  *)
(*                                                                         *)
(* A value that the code binds to a local variable and reads several times *)
(* is passed as a parameter to the operator that models the rest of the    *)
(* function, so that it is computed once.                                  *)
(***************************************************************************)
EXTENDS Integers, Sequences, FiniteSets, TLC

(***************************************************************************)
(* Strings                                                                 *)
(***************************************************************************)
Empty == << >>

\* s.startswith(p)
StartsWith(s, p) == Len(p) <= Len(s) /\ SubSeq(s, 1, Len(p)) = p

\* s.endswith(p)
EndsWith(s, p) == Len(p) <= Len(s) /\ SubSeq(s, Len(s) - Len(p) + 1, Len(s)) = p

\* The least element of a set of numbers
Min(S) == CHOOSE i \in S : \A j \in S : i <= j

\* The greatest element of a set of numbers
Max(S) == CHOOSE i \in S : \A j \in S : j <= i

\* The place of the first character of s that is in chars, 0 when none is
FirstOf(s, chars) ==
  IF \E i \in 1..Len(s) : s[i] \in chars
    THEN Min({ i \in 1..Len(s) : s[i] \in chars }) ELSE 0

\* s.find(ch) + 1: the place of the first ch in s, 0 when there is none
Find(s, ch) == FirstOf(s, { ch })

\* s.rfind(ch) + 1: the place of the last ch in s, 0 when there is none
RFind(s, ch) ==
  IF \E i \in 1..Len(s) : s[i] = ch
    THEN Max({ i \in 1..Len(s) : s[i] = ch }) ELSE 0

\* s[i - 1:], what s holds from place i on
From(s, i) == SubSeq(s, i, Len(s))

\* s[:i - 1], what s holds before place i; all of s when i is 0
Before(s, i) == IF i = 0 THEN s ELSE SubSeq(s, 1, i - 1)

\* s.rstrip(ch)
RECURSIVE RStrip(_, _)
RStrip(s, ch) ==
  IF s # Empty /\ s[Len(s)] = ch THEN RStrip(SubSeq(s, 1, Len(s) - 1), ch) ELSE s

\* s.split(ch): the list of the parts between the separators
RECURSIVE Split(_, _)
SplitAt(s, ch, i) ==
  IF i = 0 THEN << s >>
  ELSE << SubSeq(s, 1, i - 1) >> \o Split(From(s, i + 1), ch)

Split(s, ch) == SplitAt(s, ch, Find(s, ch))

\* ch.join(parts)
RECURSIVE Join(_, _)
Join(parts, ch) ==
  IF parts = << >> THEN Empty
  ELSE IF Len(parts) = 1 THEN parts[1]
  ELSE parts[1] \o << ch >> \o Join(Tail(parts), ch)

\* Whitespace as str.strip() knows it
Whitespace == { " ", "\n", "\t", "\r" }

RECURSIVE LStripWs(_)
LStripWs(s) == IF s # Empty /\ s[1] \in Whitespace THEN LStripWs(Tail(s)) ELSE s

RECURSIVE RStripWs(_)
RStripWs(s) ==
  IF s # Empty /\ s[Len(s)] \in Whitespace
    THEN RStripWs(SubSeq(s, 1, Len(s) - 1)) ELSE s

\* s.strip()
Strip(s) == LStripWs(RStripWs(s))

\* fp.readline(): the text up to and including the first newline
ReadLineAt(text, i) == IF i = 0 THEN text ELSE SubSeq(text, 1, i)

ReadLine(text) == ReadLineAt(text, Find(text, "\n"))

\* fp.read(n)
ReadN(text, n) == SubSeq(text, 1, IF Len(text) < n THEN Len(text) ELSE n)

\* The elements of a sequence
Range(seq) == { seq[i] : i \in 1..Len(seq) }

(***************************************************************************)
(* os.path                                                                 *)
(***************************************************************************)
\* os.path.basename(p): what follows the last slash
Basename(p) == From(p, RFind(p, "/") + 1)

\* os.path.dirname(p): what precedes the last slash, its trailing slashes
\* stripped unless it is all slashes
DirnameStripped(head, stripped) ==
  IF head # Empty /\ stripped # Empty THEN stripped ELSE head

DirnameOfHead(head) == DirnameStripped(head, RStrip(head, "/"))

Dirname(p) == DirnameOfHead(SubSeq(p, 1, RFind(p, "/")))

\* os.path.join(a, b)
PathJoin(a, b) ==
  IF StartsWith(b, << "/" >>) THEN b
  ELSE IF a = Empty \/ EndsWith(a, << "/" >>) THEN a \o b
  ELSE a \o << "/" >> \o b

(***************************************************************************)
(* urlparse                                                                *)
(***************************************************************************)
\* The characters urlparse accepts in a scheme (the lower-case ones: the
\* model's URLs hold no upper-case letter, so .lower() changes nothing)
SchemeChars ==
  { "a", "b", "c", "d", "e", "f", "g", "h", "i", "j", "k", "l", "m", "n", "o",
    "p", "q", "r", "s", "t", "u", "v", "w", "x", "y", "z",
    "0", "1", "2", "3", "4", "5", "6", "7", "8", "9", "+", "-", "." }

Digits == { "0", "1", "2", "3", "4", "5", "6", "7", "8", "9" }

\* urlparse(url).scheme: the text before the first colon, at place i, when it
\* is made of scheme characters and what follows is not a port number
SchemeAt(url, i) ==
  IF /\ i > 1
     /\ \A j \in 1..(i - 1) : url[j] \in SchemeChars
     /\ (i = Len(url) \/ \E j \in (i + 1)..Len(url) : url[j] \notin Digits)
    THEN SubSeq(url, 1, i - 1)
    ELSE Empty

UrlScheme(url) == SchemeAt(url, Find(url, ":"))

\* The url with its scheme s and the colon taken off
AfterScheme(url, s) == IF s = Empty THEN url ELSE From(url, Len(s) + 2)

\* What follows a //netloc, which ends at the first of / ? #
NetlocCut(body, stop) == IF stop = 0 THEN Empty ELSE From(body, stop)

AfterNetloc(rest) ==
  IF StartsWith(rest, << "/", "/" >>)
    THEN NetlocCut(From(rest, 3), FirstOf(From(rest, 3), { "/", "?", "#" }))
    ELSE rest

\* The url once its scheme and its netloc are taken off
UrlAfterNetloc(url) == AfterNetloc(AfterScheme(url, UrlScheme(url)))

\* urlparse(url).fragment
FragmentAt(rest, i) == IF i = 0 THEN Empty ELSE From(rest, i + 1)

FragmentOf(rest) == FragmentAt(rest, Find(rest, "#"))

UrlFragment(url) == FragmentOf(UrlAfterNetloc(url))

\* urlparse(url).path: up to the fragment and the query
PathOf(rest) == Before(rest, FirstOf(rest, { "#", "?" }))

UrlPath(url) == PathOf(UrlAfterNetloc(url))

\* urljoin(base, rel) for a rel that is empty (the base itself) or a plain
\* relative name (the base up to its last slash, then rel); a rel with a
\* scheme of its own or a leading slash is not joined to the base's directory
UrlJoin(base, rel) ==
  IF rel = Empty THEN base
  ELSE IF UrlScheme(rel) # Empty THEN rel
  ELSE IF StartsWith(rel, << "/" >>)
    THEN SubSeq(base, 1, Len(base) - Len(UrlPath(base))) \o rel
  ELSE SubSeq(base, 1, RFind(base, "/")) \o rel

\* parse_qs(fragment).get('egg', [''])[0]: the value of the first egg= field
EggOf(fields, eggs) == IF eggs = {} THEN Empty ELSE From(fields[Min(eggs)], 5)

EggIn(fields) ==
  EggOf(fields, { i \in 1..Len(fields) :
                    StartsWith(fields[i], << "e", "g", "g", "=" >>)
                    /\ Len(fields[i]) > 4 })

\* parse_qs(re.sub(r'^#', '', fragment)).get('egg', [''])[0]
EggName(fragment) ==
  EggIn(Split(IF StartsWith(fragment, << "#" >>) THEN Tail(fragment) ELSE fragment,
              "&"))

\* re.sub(r'[<>=].*', '', spec): the spec up to its first comparison sign
SpecPackageName(spec) == Before(spec, FirstOf(spec, { "<", ">", "=" }))

(***************************************************************************)
(* hashlib                                                                 *)
(***************************************************************************)
MD5 == << "m", "d", "5" >>
SHA1 == << "s", "h", "a", "1" >>
SHA224 == << "s", "h", "a", "2", "2", "4" >>
SHA256 == << "s", "h", "a", "2", "5", "6" >>
SHA384 == << "s", "h", "a", "3", "8", "4" >>
SHA512 == << "s", "h", "a", "5", "1", "2" >>

\* hashlib.algorithms, in its order
Algorithms == << MD5, SHA1, SHA224, SHA256, SHA384, SHA512 >>

AlgorithmSet == { MD5, SHA1, SHA224, SHA256, SHA384, SHA512 }

\* hashlib.new(alg) fed the whole content, .hexdigest(): a word that is a
\* one-to-one function of the algorithm and of the content
HexDigest(alg, data) == alg \o data

(***************************************************************************)
(* The filesystem: fs maps each existing path (no trailing slash) to its   *)
(* entry, a directory or a file with its content.                          *)
(***************************************************************************)
DirEntry == [ kind |-> "dir", data |-> Empty ]

FileEntry(text) == [ kind |-> "file", data |-> text ]

\* The path as the OS resolves it: trailing slashes do not count
NormStripped(p, stripped) == IF stripped = Empty THEN p ELSE stripped

Norm(p) == NormStripped(p, RStrip(p, "/"))

\* os.path.exists(p)
Exists(f, p) == p # Empty /\ Norm(p) \in DOMAIN f

\* Whether the resolved path q holds an entry of the kind
HasKind(f, q, kind) == q \in DOMAIN f /\ f[q].kind = kind

\* os.path.isfile(p)
IsFile(f, p) == p # Empty /\ HasKind(f, Norm(p), "file")

\* os.path.isdir(p)
IsDir(f, p) == p # Empty /\ HasKind(f, Norm(p), "dir")

\* open(p).read()
ReadFile(f, p) == f[Norm(p)].data

\* The paths below the resolved directory nd
BelowDir(f, nd) == { p \in DOMAIN f : StartsWith(p, nd \o << "/" >>) }

\* The order of the characters, for the order of a directory listing
CharOrder ==
  << "\n", " ", "#", "-", ".", "/", "0", "1", "2", "3", "4", "5", "6", "7",
     "8", "9", ":", "<", "=", ">", "X", "Y", "a", "b", "c", "d", "e", "f",
     "g", "h", "i", "j", "k", "l", "m", "n", "o", "p", "q", "r", "s", "t",
     "u", "v", "w", "x", "y", "z" >>

CharRank(c) == Find(CharOrder, c)

RECURSIVE StrLess(_, _)
StrLess(a, b) ==
  IF a = Empty THEN b # Empty
  ELSE IF b = Empty THEN FALSE
  ELSE IF a[1] = b[1] THEN StrLess(Tail(a), Tail(b))
  ELSE CharRank(a[1]) < CharRank(b[1])

\* The least string of a set
Least(S) == CHOOSE x \in S : \A y \in S \ { x } : StrLess(x, y)

RECURSIVE SortedSeq(_)
SortedFrom(S, m) == << m >> \o SortedSeq(S \ { m })

SortedSeq(S) == IF S = {} THEN << >> ELSE SortedFrom(S, Least(S))

\* The names directly in the resolved directory nd
Children(f, nd) ==
  { From(p, Len(nd) + 2) :
      p \in { q \in BelowDir(f, nd) : Find(From(q, Len(nd) + 2), "/") = 0 } }

\* os.listdir(d): the names directly in d.  The order os.listdir gives is the
\* filesystem's; it is the same for an unchanged directory, and the model
\* takes the sorted one.
ListDir(f, d) == SortedSeq(Children(f, Norm(d)))

\* The directories above the resolved path q, q included
RECURSIVE Ancestors(_)
Ancestors(q) ==
  IF q = Empty \/ q = << "/" >> \/ Dirname(q) = q THEN {}
  ELSE { q } \cup Ancestors(Dirname(q))

\* The filesystem with a directory at each path of dirs that it lacks
WithDirs(f, dirs) ==
  [ q \in DOMAIN f \cup dirs |-> IF q \in DOMAIN f THEN f[q] ELSE DirEntry ]

\* os.makedirs(p): p and every missing directory above it
MakeDirs(f, p) == WithDirs(f, Ancestors(Norm(p)))

\* if not os.path.exists(p): os.makedirs(p)
MakeDirsIfMissing(f, p) == IF Exists(f, p) THEN f ELSE MakeDirs(f, p)

\* The filesystem without the paths of gone
Without(f, gone) == [ q \in DOMAIN f \ gone |-> f[q] ]

\* shutil.rmtree(d)
RmTreeDir(f, nd) == Without(f, { nd } \cup BelowDir(f, nd))

RmTree(f, d) == RmTreeDir(f, Norm(d))

\* os.remove(p)
Remove(f, p) == Without(f, { Norm(p) })

\* The filesystem with the entry at the resolved path q
WithEntry(f, q, entry) ==
  [ p \in DOMAIN f \cup { q } |-> IF p = q THEN entry ELSE f[p] ]

\* open(p, 'w').write(text)
WriteFile(f, p, text) == WithEntry(f, Norm(p), FileEntry(text))

\* os.rename(old, new) of a file: new is replaced when it exists
RenameEntry(f, nold, nnew) == WithEntry(Without(f, { nold }), nnew, f[nold])

Rename(f, old, new) == RenameEntry(f, Norm(old), Norm(new))

(***************************************************************************)
(* Resources.  A definition is the mapping of one resource in the yaml: a  *)
(* function from the keys it holds to their strings.                       *)
(***************************************************************************)
\* definition.get(key, default)
Get(definition, key, default) ==
  IF key \in DOMAIN definition THEN definition[key] ELSE default

\* Resource.__init__, once self.source and self.filename are known
ResourceNamed(name, definition, output_dir, source, filename) ==
  [ name |-> name,
    cls |-> "Resource",
    source |-> source,
    filename |-> filename,
    destination |-> Get(definition, "destination", PathJoin(output_dir, filename)),
    spec |-> Get(definition, "destination", PathJoin(output_dir, filename)),
    hash |-> Get(definition, "hash", Empty),
    hash_type |-> Get(definition, "hash_type", Empty),
    output_dir |-> output_dir,
    url |-> Empty,
    package_name |-> Empty,
    destination_dir |-> Empty ]

\* Resource.__init__
ResourceInit(name, definition, output_dir) ==
  ResourceNamed(name, definition, output_dir, Get(definition, "file", Empty),
                Basename(Get(definition, "file", Empty)))

\* URLResource.__init__, after the base class's, once self.filename is known
URLResourceNamed(base, definition, url, filename) ==
  [ base EXCEPT
      !.cls = "URLResource",
      !.url = url,
      !.spec = url,
      !.filename = filename,
      !.destination =
        Get(definition, "destination", PathJoin(base.output_dir, filename)) ]

\* URLResource.__init__, after the base class's, once self.url is known
URLResourceOver(base, definition, url) ==
  URLResourceNamed(base, definition, url,
                   Get(definition, "filename", Basename(UrlPath(url))))

\* URLResource.__init__
URLResourceInit(name, definition, output_dir) ==
  URLResourceOver(ResourceInit(name, definition, output_dir), definition,
                  Get(definition, "url", Empty))

\* A faulty PyPIResource.__init__, which leaves every destination empty
PyPIResourceUnplaced(base, spec) ==
  [ base EXCEPT
      !.cls = "PyPIResource",
      !.spec = spec,
      !.url = IF UrlScheme(spec) # Empty THEN spec ELSE Empty,
      !.package_name = SpecPackageName(spec),
      !.destination_dir = PathJoin(base.output_dir, SpecPackageName(spec)),
      !.filename = Empty,
      !.destination = Empty ]

\* PyPIResource.__init__, after the base class's, once self.spec is known
PyPIResourceOver(base, spec) ==
  IF UrlScheme(spec) # Empty
    THEN [ base EXCEPT
             !.cls = "PyPIResource",
             !.spec = spec,
             !.url = spec,
             !.package_name = EggName(UrlFragment(spec)),
             !.destination_dir = base.output_dir,
             !.filename = Basename(UrlPath(spec)),
             !.destination = PathJoin(base.output_dir, Basename(UrlPath(spec))) ]
    ELSE [ base EXCEPT
             !.cls = "PyPIResource",
             !.spec = spec,
             !.url = Empty,
             !.package_name = SpecPackageName(spec),
             !.destination_dir = PathJoin(base.output_dir, SpecPackageName(spec)),
             !.filename = Empty,
             !.destination = Empty ]

\* PyPIResource.__init__
PyPIResourceInit(name, definition, output_dir) ==
  PyPIResourceOver(URLResourceInit(name, definition, output_dir),
                   Get(definition, "pypi", Empty))

\* Resource.get: the subclass the definition asks for
ResourceGet(name, definition, output_dir) ==
  IF "url" \in DOMAIN definition THEN URLResourceInit(name, definition, output_dir)
  ELSE IF "pypi" \in DOMAIN definition
    THEN PyPIResourceInit(name, definition, output_dir)
  ELSE ResourceInit(name, definition, output_dir)

\* A faulty Resource.verify, which does not compare the digests
ResourceVerifyNoDigest(r, f) ==
  r.hash_type \in AlgorithmSet /\ IsFile(f, r.destination)

\* Resource.verify
ResourceVerify(r, f) ==
  IF r.hash_type \notin AlgorithmSet THEN FALSE
  ELSE IF ~IsFile(f, r.destination) THEN FALSE
  ELSE IF r.hash # HexDigest(r.hash_type, ReadFile(f, r.destination)) THEN FALSE
  ELSE TRUE

\* The first algorithm of hashlib.algorithms, from place i on, whose sidecar
\* file fullname.<algorithm> is a file; 0 when there is none
RECURSIVE FirstSidecar(_, _, _)
FirstSidecar(f, fullname, i) ==
  IF i > Len(Algorithms) THEN 0
  ELSE IF IsFile(f, fullname \o << "." >> \o Algorithms[i]) THEN i
  ELSE FirstSidecar(f, fullname, i + 1)

\* PyPIResource.get_local_hash, the four assignments for a sidecar found
AdoptSidecar(r, filename, fullname, hash_type, text) ==
  [ r EXCEPT
      !.filename = filename,
      !.destination = fullname,
      !.hash_type = hash_type,
      !.hash = Strip(ReadLine(text)) ]

\* PyPIResource.get_local_hash, from the file at place i of the listing on
RECURSIVE LocalHashFrom(_, _, _, _)
LocalHashPick(r, f, listing, i, fullname, a) ==
  IF a = 0 THEN LocalHashFrom(r, f, listing, i + 1)
  ELSE AdoptSidecar(r, listing[i], fullname, Algorithms[a],
                    ReadFile(f, fullname \o << "." >> \o Algorithms[a]))

LocalHashAt(r, f, listing, i, fullname) ==
  LocalHashPick(r, f, listing, i, fullname, FirstSidecar(f, fullname, 1))

LocalHashFrom(r, f, listing, i) ==
  IF i > Len(listing) THEN r
  ELSE LocalHashAt(r, f, listing, i, PathJoin(r.destination_dir, listing[i]))

\* PyPIResource.get_local_hash: the resource as the call leaves it
GetLocalHash(r, f) ==
  IF r.url # Empty THEN r
  ELSE IF ~IsDir(f, r.destination_dir) THEN r
  ELSE LocalHashFrom(r, f, ListDir(f, r.destination_dir), 1)

\* verify(), the resource as the call leaves it: only a PyPIResource changes
AfterVerify(r, f) == IF r.cls = "PyPIResource" THEN GetLocalHash(r, f) ELSE r

\* verify(), its result: PyPIResource.verify is get_local_hash and then
\* Resource.verify
Verify(r, f) == ResourceVerify(AfterVerify(r, f), f)

(***************************************************************************)
(* The world outside the program: the declaration files it may be given,   *)
(* the documents the network serves and what the installer downloads.      *)
(***************************************************************************)
\* The output directory the declaration names (options.output_dir)
OUT == << "o" >>

\* The two artifact contents, and their digests
DataX == << "X" >>
DataY == << "Y" >>

\* Resource names
NameA == << "a" >>
NameB == << "b" >>
NameZ == << "z" >>

\* URLs
UrlU == << "h", ":", "/", "u" >>
UrlHash == << "h", ":", "/", "k" >>
UrlEgg == << "h", ":", "/", "w", "#", "e", "g", "g", "=", "a", "b" >>
MirrorM == << "h", ":", "/", "m", "/" >>
\* 'https://pypi.python.org/simple', the index fetch() falls back to
PyPIUrl == << "h", ":", "/", "p" >>

\* Package specs and the files the index holds for them
PkgAB == << "a", "b" >>
PkgCD == << "c", "d" >>
PkgABC == << "a", "b", "c" >>
SpecABPinned == << "a", "b", "=", "=", "1" >>
FileAB == << "a", "b", "-", "1" >>
FileCD == << "c", "d", "-", "2" >>
FileABC == << "a", "b", "c", "-", "1" >>

\* Definitions of resources, as a declaration file may hold them
DefLocal ==
  [ file |-> << "s", "/", "l" >>, hash |-> HexDigest(MD5, DataX), hash_type |-> MD5 ]
DefLocalNoType == [ file |-> << "s", "/", "l" >>, hash |-> HexDigest(MD5, DataX) ]
DefUrl == [ url |-> UrlU, hash |-> HexDigest(MD5, DataX), hash_type |-> MD5 ]
DefUrlSha == [ url |-> UrlU, hash |-> HexDigest(SHA256, DataX), hash_type |-> SHA256 ]
DefUrlHashUrl == [ url |-> UrlU, hash |-> UrlHash, hash_type |-> MD5 ]
DefPyPIUrl == [ pypi |-> UrlEgg, hash |-> HexDigest(MD5, DataX), hash_type |-> MD5 ]
DefBare == [ pypi |-> PkgAB ]
DefBarePinned ==
  [ pypi |-> SpecABPinned, hash |-> HexDigest(MD5, DataX), hash_type |-> MD5 ]
DefDep == [ pypi |-> PkgCD ]

\* One group of a declaration file: the names it declares, each with its
\* definition
NoGroup == [ n \in {} |-> DefLocal ]
Group1(n, d) == [ m \in { n } |-> d ]
Group2(n1, d1, n2, d2) == [ m \in { n1, n2 } |-> IF m = n1 THEN d1 ELSE d2 ]

\* The declaration files (resources.yaml) of the model
Declarations ==
  { [ resources |-> Group1(NameA, DefUrlSha),
      optional_resources |-> Group1(NameB, DefLocal) ],
    [ resources |-> Group2(NameA, DefUrlHashUrl, NameB, DefPyPIUrl),
      optional_resources |-> NoGroup ],
    [ resources |-> Group1(NameA, DefBare),
      optional_resources |-> Group1(NameB, DefDep) ],
    [ resources |-> Group1(NameA, DefBarePinned),
      optional_resources |-> Group1(NameB, DefLocalNoType) ] }

\* A line of a served page: <a href="HREF"ATTRS>TEXT</a>
Anchor(href, attrs, text) == [ href |-> href, attrs |-> attrs, text |-> text ]

\* A detail page's anchor for a file, its digest in the fragment
HashAnchor(filename, alg, data) ==
  Anchor(<< ".", "/" >> \o filename \o << "#" >> \o alg \o << "=" >>
           \o HexDigest(alg, data),
         Empty, filename)

\* The documents the network holds, by URL: a body for an artifact or a hash
\* endpoint, the anchors for a page
WebBodies ==
  [ u \in { UrlU, MirrorM \o << "u" >>, UrlHash,
            << "h", ":", "/", "w" >>, MirrorM \o << "w" >> } |->
      IF u = UrlHash THEN HexDigest(MD5, DataX) \o << "\n" >> ELSE DataX ]

WebPages ==
  [ u \in { PyPIUrl \o << "/" >>, PyPIUrl \o << "/" >> \o PkgAB,
            PyPIUrl \o << "/" >> \o PkgCD, MirrorM, MirrorM \o PkgAB } |->
      IF u = PyPIUrl \o << "/" >>
        THEN << Anchor(PkgAB, Empty, PkgAB), Anchor(PkgCD, Empty, PkgCD),
                Anchor(PkgABC, Empty, PkgABC) >>
      ELSE IF u = PyPIUrl \o << "/" >> \o PkgAB THEN << HashAnchor(FileAB, MD5, DataX) >>
      ELSE IF u = PyPIUrl \o << "/" >> \o PkgCD THEN << HashAnchor(FileCD, MD5, DataY) >>
      ELSE IF u = MirrorM THEN << Anchor(PkgAB, Empty, PkgAB) >>
      ELSE << HashAnchor(FileAB, SHA1, DataX) >> ]

\* The url a request is made for: the fragment is not sent
Requested(url) == Before(url, Find(url, "#"))

\* What the installer's download-only mode may leave in the target directory
\* for a spec: the files, each with its content
PipFiles(files) ==
  [ n \in files |-> IF n = FileAB THEN DataX ELSE DataY ]

PipDownloads(spec) ==
  IF spec = PkgAB
    THEN { PipFiles({ FileAB }), PipFiles({ FileAB, FileCD }),
           PipFiles({ FileAB, FileABC }) }
  ELSE IF spec = SpecABPinned THEN { PipFiles({ FileAB }) }
  ELSE IF spec = PkgCD THEN { PipFiles({ FileCD }) }
  ELSE {}

(***************************************************************************)
(* Fetching.  `down` is the set of URLs whose request fails (IOError)      *)
(* while one resource is fetched; a URL the network does not hold fails    *)
(* too.  Each operation gives the resource, the filesystem and the class's *)
(* _index as it leaves them, `reqs`, the requests it made in order, each   *)
(* with whether it succeeded, and whether it raised.                       *)
(***************************************************************************)
\* The bytes of a hash endpoint that URLResource.fetch reads: fp.read(1024)
HashReadLimit == 1024

\* urlretrieve(url, ...) / urlopen(url) of a body raises IOError
BodyDown(u, down) == u \in down \/ u \notin DOMAIN WebBodies

BodyFails(url, down) == BodyDown(Requested(url), down)

\* urlopen(url) of a page raises IOError
PageDown(u, down) == u \in down \/ u \notin DOMAIN WebPages

PageFails(url, down) == PageDown(Requested(url), down)

Req(url, ok) == [ url |-> url, ok |-> ok ]

\* What a fetch that returns leaves
Returned(r, f, idx, reqs) ==
  [ r |-> r, fs |-> f, index |-> idx, reqs |-> reqs, raised |-> FALSE ]

\* What a fetch that raises leaves
Raised(r, f, idx, reqs) ==
  [ r |-> r, fs |-> f, index |-> idx, reqs |-> reqs, raised |-> TRUE ]

\* Resource.fetch: nothing
ResourceFetch(r, f, idx) == Returned(r, f, idx, << >>)

\* if url.startswith('./'): url = url[2:]
StripDotSlash(url) == IF StartsWith(url, << ".", "/" >>) THEN From(url, 3) ELSE url

\* URLResource.fetch: the url it downloads
URLFetchUrl(r, mirror_url) ==
  StripDotSlash(IF mirror_url # Empty THEN UrlJoin(mirror_url, r.filename) ELSE r.url)

\* if os.path.exists(p): os.remove(p)
RemoveIfExists(f, p) == IF Exists(f, p) THEN Remove(f, p) ELSE f

\* A faulty preparation, which empties the directory of the destination
URLPrepareWiping(f, destination) ==
  MakeDirs(IF Exists(f, Dirname(destination)) THEN RmTree(f, Dirname(destination))
           ELSE f,
           Dirname(destination))

\* URLResource.fetch, before the download: the directory of the destination
\* is made and a file at the destination is removed
URLPrepare(f, destination) ==
  RemoveIfExists(MakeDirsIfMissing(f, Dirname(destination)), destination)

\* URLResource.fetch, after the download: a hash that is a URL is replaced by
\* what the URL serves
URLHashed(r, f, idx, down, url) ==
  IF UrlScheme(r.hash) = Empty THEN Returned(r, f, idx, << Req(url, TRUE) >>)
  ELSE IF BodyFails(r.hash, down)
    THEN Returned(r, f, idx, << Req(url, TRUE), Req(r.hash, FALSE) >>)
  ELSE Returned([ r EXCEPT !.hash =
                    Strip(ReadN(WebBodies[Requested(r.hash)], HashReadLimit)) ],
                f, idx, << Req(url, TRUE), Req(r.hash, TRUE) >>)

\* A faulty URLResource.fetch, which lets the IOError of the download out
URLRetrievedRaising(r, f, idx, down, url) ==
  IF BodyFails(url, down) THEN Raised(r, f, idx, << Req(url, FALSE) >>)
  ELSE URLHashed(r, WriteFile(f, r.destination, WebBodies[Requested(url)]), idx,
                 down, url)

\* URLResource.fetch, the download: an IOError ends the call
URLRetrieved(r, f, idx, down, url) ==
  IF BodyFails(url, down) THEN Returned(r, f, idx, << Req(url, FALSE) >>)
  ELSE URLHashed(r, WriteFile(f, r.destination, WebBodies[Requested(url)]), idx,
                 down, url)

\* URLResource.fetch
URLFetch(r, mirror_url, f, idx, down) ==
  URLRetrieved(r, URLPrepare(f, r.destination), idx, down,
               URLFetchUrl(r, mirror_url))

\* The characters of \w
WordChars ==
  { "a", "b", "c", "d", "e", "f", "g", "h", "i", "j", "k", "l", "m", "n", "o",
    "p", "q", "r", "s", "t", "u", "v", "w", "x", "y", "z", "X", "Y", "_",
    "0", "1", "2", "3", "4", "5", "6", "7", "8", "9" }

\* The project an index line names: re.findall(
\* r'<a href=(?:"[^"]*"|\'[^\']*\')>([^</]+)', line) takes an anchor with
\* nothing between its href and its '>', and its text up to a '<' or a '/'
AnchorProject(line) ==
  IF line.attrs = Empty
    THEN Before(line.text, FirstOf(line.text, { "<", "/" })) ELSE Empty

\* The projects of a listing page
PageProjects(lines) ==
  { AnchorProject(lines[i]) : i \in 1..Len(lines) } \ { Empty }

\* PyPIResource._get_index: the class's _index as the call leaves it (which
\* is also what the call returns).  An _index that is unset or empty is
\* fetched.
GetIndex(idx, url, down) ==
  IF idx # {} THEN [ index |-> idx, reqs |-> << >> ]
  ELSE IF PageFails(url, down) THEN [ index |-> {}, reqs |-> << Req(url, FALSE) >> ]
  ELSE [ index |-> PageProjects(WebPages[Requested(url)]),
         reqs |-> << Req(url, TRUE) >> ]

\* The longest prefix of `parts`, joined by hyphens, that the index holds
RECURSIVE LongestKnown(_, _)
LongestKnown(parts, idx) ==
  IF parts = << >> THEN Empty
  ELSE IF Join(parts, "-") \in idx THEN Join(parts, "-")
  ELSE LongestKnown(SubSeq(parts, 1, Len(parts) - 1), idx)

\* PyPIResource._package_name_from_filename, given the index _get_index
\* returned
PackageNameFromFilename(filename, idx) == LongestKnown(Split(filename, "-"), idx)

\* The places of an href where link_re may match the file name: at its start
\* or after a slash, and followed by '#'
LinkStarts(h, filename) ==
  { i \in 1..Len(h) :
      /\ i + Len(filename) <= Len(h)
      /\ SubSeq(h, i, i + Len(filename) - 1) = filename
      /\ (i = 1 \/ h[i - 1] = "/")
      /\ h[i + Len(filename)] = "#" }

\* The groups of ([^=]+)=(\w+)["'] on what follows the '#', its first '=' at
\* place e: an algorithm, then a digest of word characters up to the closing
\* quote; none when it does not match
FragmentGroups(frag, e) ==
  IF /\ e > 1
     /\ e < Len(frag)
     /\ \A j \in (e + 1)..Len(frag) : frag[j] \in WordChars
    THEN << SubSeq(frag, 1, e - 1), From(frag, e + 1) >>
    ELSE << >>

LinkGroups(frag) == FragmentGroups(frag, Find(frag, "="))

\* The groups of the first place of the href where link_re matches
LinkPick(h, n, good) ==
  IF good = {} THEN << >> ELSE LinkGroups(From(h, Min(good) + n + 1))

LinkGood(h, n, starts) ==
  LinkPick(h, n, { i \in starts : LinkGroups(From(h, i + n + 1)) # << >> })

\* re.search(link_re, line): its groups, none when there is no match
LinkMatch(line, filename) ==
  LinkGood(line.href, Len(filename), LinkStarts(line.href, filename))

\* The first line of the page that link_re matches: its groups
RECURSIVE FirstLink(_, _, _)
FirstLinkAt(lines, filename, i, groups) ==
  IF groups # << >> THEN groups ELSE FirstLink(lines, filename, i + 1)

FirstLink(lines, filename, i) ==
  IF i > Len(lines) THEN << Empty, Empty >>
  ELSE FirstLinkAt(lines, filename, i, LinkMatch(lines[i], filename))

\* PyPIResource.get_remote_hash, once the page's url is known
RemoteHashAt(filename, down, got, url) ==
  [ index |-> got.index,
    groups |-> IF PageFails(url, down) THEN << Empty, Empty >>
               ELSE FirstLink(WebPages[Requested(url)], filename, 1),
    reqs |-> got.reqs \o << Req(url, ~PageFails(url, down)) >> ]

\* PyPIResource.get_remote_hash, once _get_index has returned
RemoteHashIn(filename, mirror_url, down, got) ==
  RemoteHashAt(filename, down, got,
               UrlJoin(mirror_url, PackageNameFromFilename(filename, got.index)))

\* PyPIResource.get_remote_hash: (hash_type, hash), and the class's _index
\* as the call leaves it
GetRemoteHash(filename, mirror_url, idx, down) ==
  RemoteHashIn(filename, mirror_url, down, GetIndex(idx, mirror_url, down))

\* PyPIResource.process_dependency, once get_remote_hash has returned
DependencyHashed(f, new_dest, got, found) ==
  [ fs |-> IF found.groups[1] # Empty
             THEN WriteFile(f, Join(<< new_dest, found.groups[1] >>, "."),
                            found.groups[2] \o << "\n" >>)
             ELSE f,
    index |-> found.index,
    reqs |-> got.reqs \o found.reqs ]

\* PyPIResource.process_dependency, once new_dir is known: the file is moved
DependencyMoved(r, filename, mirror_url, f, down, got, new_dir) ==
  DependencyHashed(Rename(MakeDirsIfMissing(f, new_dir),
                          PathJoin(r.destination_dir, filename),
                          PathJoin(new_dir, filename)),
                   PathJoin(new_dir, filename), got,
                   GetRemoteHash(filename, mirror_url, got.index, down))

\* PyPIResource.process_dependency, once _get_index has returned
DependencyIn(r, filename, mirror_url, f, down, got) ==
  DependencyMoved(r, filename, mirror_url, f, down, got,
                  PathJoin(r.output_dir,
                           PackageNameFromFilename(filename, got.index)))

\* PyPIResource.process_dependency: the filesystem and the class's _index as
\* the call leaves them
ProcessDependency(r, filename, mirror_url, f, idx, down) ==
  DependencyIn(r, filename, mirror_url, f, down, GetIndex(idx, mirror_url, down))

\* The loop of PyPIResource.fetch over the downloaded files, from place i of
\* the listing on
RECURSIVE ProcessDownloads(_, _, _, _, _, _, _, _)
\* The file is the package's own and its hash was looked up
PrimaryHashed(r, listing, i, mirror_url, f, down, reqs, found) ==
  ProcessDownloads([ r EXCEPT !.hash = found.groups[2],
                              !.hash_type = found.groups[1] ],
                   listing, i + 1, mirror_url,
                   IF found.groups[1] # Empty
                     THEN WriteFile(f, Join(<< r.destination, found.groups[1] >>, "."),
                                    found.groups[2] \o << "\n" >>)
                     ELSE f,
                   found.index, down, reqs \o found.reqs)

\* The file is the package's own: self.filename and self.destination are set
Primary(r, listing, i, mirror_url, f, idx, down, reqs) ==
  IF r.hash = Empty \/ r.hash_type = Empty
    THEN PrimaryHashed(r, listing, i, mirror_url, f, down, reqs,
                       GetRemoteHash(r.filename, mirror_url, idx, down))
    ELSE ProcessDownloads(r, listing, i + 1, mirror_url, f, idx, down, reqs)

\* The file is another package's and process_dependency has returned
Dependency(r, listing, i, mirror_url, down, reqs, dep) ==
  ProcessDownloads(r, listing, i + 1, mirror_url, dep.fs, dep.index, down,
                   reqs \o dep.reqs)

ProcessDownloads(r, listing, i, mirror_url, f, idx, down, reqs) ==
  IF i > Len(listing) THEN Returned(r, f, idx, reqs)
  ELSE IF StartsWith(listing[i], r.package_name)
    THEN Primary([ r EXCEPT
                     !.filename = listing[i],
                     !.destination = PathJoin(r.destination_dir, listing[i]) ],
                 listing, i, mirror_url, f, idx, down, reqs)
  ELSE Dependency(r, listing, i, mirror_url, down, reqs,
                  ProcessDependency(r, listing[i], mirror_url, f, idx, down))

\* The files of a download written into directory d
RECURSIVE WriteAll(_, _, _, _)
WriteOne(f, d, files, names, n) ==
  WriteAll(WriteFile(f, PathJoin(d, n), files[n]), d, files, names \ { n })

WriteAll(f, d, files, names) ==
  IF names = {} THEN f ELSE WriteOne(f, d, files, names, CHOOSE x \in names : TRUE)

\* The installer's command line, as the request it is
PipCommand(spec) == << "p", "i", "p", " " >> \o spec

\* PyPIResource.fetch of a bare spec, before the installer runs: the
\* destination directory is removed and made anew
PyPIPrepare(f, d) == MakeDirs(IF Exists(f, d) THEN RmTree(f, d) ELSE f, d)

\* The index url of PyPIResource.fetch, with one trailing slash
PyPIMirror(mirror_url) ==
  RStrip(IF mirror_url = Empty THEN PyPIUrl ELSE mirror_url, "/") \o << "/" >>

\* PyPIResource.fetch of a bare spec, once the installer has downloaded
PyPIDownloaded(r, mirror_url, f, idx, down) ==
  ProcessDownloads(r, ListDir(f, r.destination_dir), 1, mirror_url, f, idx, down,
                   << Req(PipCommand(r.spec), TRUE) >>)

\* PyPIResource.fetch of a bare spec, the installer's run.  pip is what the
\* installer did: a non-zero exit (ok is FALSE) or the files it downloaded.
PyPIRun(r, mirror_url, f, idx, pip, down) ==
  IF ~pip.ok THEN Returned(r, f, idx, << Req(PipCommand(r.spec), FALSE) >>)
  ELSE PyPIDownloaded(r, PyPIMirror(mirror_url),
                      WriteAll(f, r.destination_dir, pip.files, DOMAIN pip.files),
                      idx, down)

\* PyPIResource.fetch of a bare spec
PyPIFetch(r, mirror_url, f, idx, pip, down) ==
  PyPIRun(r, mirror_url, PyPIPrepare(f, r.destination_dir), idx, pip, down)

\* resource.fetch(mirror_url), by the class of the resource
Fetch(r, mirror_url, f, idx, pip, down) ==
  IF r.cls = "Resource" THEN ResourceFetch(r, f, idx)
  ELSE IF r.cls = "URLResource" \/ r.url # Empty
    THEN URLFetch(r, mirror_url, f, idx, down)
  ELSE PyPIFetch(r, mirror_url, f, idx, pip, down)

(***************************************************************************)
(* The container                                                           *)
(***************************************************************************)
\* ResourceContainer.__init__
ResourceContainer(output_dir) ==
  [ dict |-> << >>, required |-> {}, output_dir |-> output_dir ]

\* A faulty self[name] = resource, which keeps the resource a name holds
SetItemOnce(dict, name, resource) ==
  [ n \in DOMAIN dict \cup { name } |-> IF n \in DOMAIN dict THEN dict[n] ELSE resource ]

\* self[name] = resource
SetItem(dict, name, resource) ==
  [ n \in DOMAIN dict \cup { name } |-> IF n = name THEN resource ELSE dict[n] ]

\* ResourceContainer.add_required
AddRequired(c, name, definition) ==
  [ c EXCEPT
      !.dict = SetItem(c.dict, name, ResourceGet(name, definition, c.output_dir)),
      !.required = c.required \cup { name } ]

\* ResourceContainer.add_optional
AddOptional(c, name, definition) ==
  [ c EXCEPT
      !.dict = SetItem(c.dict, name, ResourceGet(name, definition, c.output_dir)) ]

\* The selectors: nothing, ALL, one name, a list of names
WhichNone == [ kind |-> "none", names |-> << >> ]
WhichAll == [ kind |-> "all", names |-> << >> ]
WhichName(n) == [ kind |-> "name", names |-> << n >> ]
WhichList(ns) == [ kind |-> "list", names |-> ns ]

\* `not which`: None, an empty list, an empty name
Falsy(which) ==
  \/ which.kind = "none"
  \/ which.kind = "list" /\ which.names = << >>
  \/ which.kind = "name" /\ which.names[1] = Empty

\* What subset() returns: the names of the resources, in order
Listed(names) == [ raised |-> "", names |-> names, key |-> Empty ]

\* A faulty subset(), which lists the names in their sorted order
SubsetSorted(names, missing) ==
  IF missing # {}
    THEN [ raised |-> "KeyError", names |-> << >>, key |-> names[Min(missing)] ]
    ELSE Listed(SortedSeq(Range(names)))

\* [self[name] for name in which], or [self[which]]: the KeyError of the
\* first name the container does not hold
SubsetNamed(names, missing) ==
  IF missing # {}
    THEN [ raised |-> "KeyError", names |-> << >>, key |-> names[Min(missing)] ]
    ELSE Listed(names)

\* ResourceContainer.subset.  The set and the dict are gone through in the
\* order of the names.
Subset(c, which) ==
  IF Falsy(which) THEN Listed(SortedSeq(c.required))
  ELSE IF which.kind = "all" THEN Listed(SortedSeq(DOMAIN c.dict))
  ELSE SubsetNamed(which.names,
                   { i \in 1..Len(which.names) : which.names[i] \notin DOMAIN c.dict })

\* _load, the two loops: the resources of a group are added, in the order of
\* their names
RECURSIVE AddGroup(_, _, _, _)
AddGroup(c, group, names, isRequired) ==
  IF names = << >> THEN c
  ELSE AddGroup(IF isRequired THEN AddRequired(c, names[1], group[names[1]])
                ELSE AddOptional(c, names[1], group[names[1]]),
                group, Tail(names), isRequired)

\* _load, when the cache does not hold the container: the container built
\* from the declaration, the required group first
Load(defs) ==
  AddGroup(AddGroup(ResourceContainer(OUT), defs.resources,
                    SortedSeq(DOMAIN defs.resources), TRUE),
           defs.optional_resources,
           SortedSeq(DOMAIN defs.optional_resources), FALSE)

\* The container once verify() was called on the resources of the names
Verified(c, names, f) ==
  [ c EXCEPT !.dict =
      [ n \in DOMAIN c.dict |->
          IF n \in names THEN AfterVerify(c.dict[n], f) ELSE c.dict[n] ] ]

\* _invalid, once every verify() has run get_local_hash: the names whose
\* resources do not verify
InvalidOf(c, names, f) ==
  [ invalid |-> { n \in names : ~ResourceVerify(c.dict[n], f) },
    container |-> c ]

\* _invalid: the names of the listed resources that do not verify, and the
\* container as the verify() calls leave its resources
Invalid(c, names, f) == InvalidOf(Verified(c, Range(names), f), Range(names), f)

(***************************************************************************)
(* Installing                                                              *)
(***************************************************************************)
\* What install() leaves: the resource, the filesystem, what it returned or
\* raised, and what its verify() gave
Installed(r, f, result, verified) ==
  [ r |-> r, fs |-> f, result |-> result, verified |-> verified ]

\* shutil.copy2(src, directory)
Copy2(f, src, directory) ==
  WriteFile(f, PathJoin(directory, Basename(src)), ReadFile(f, src))

\* A faulty Resource.install, which does not look at what verify() gave
ResourceInstallUnverified(r, destination, f) ==
  IF destination = Empty
    THEN Installed(r, f, "TypeError", ResourceVerify(r, f))
    ELSE Installed(r, MakeDirsIfMissing(f, destination), "True",
                   ResourceVerify(r, f))

\* Resource.install(destination), once verify() has run.  The artifacts of
\* the model are no archives, so a verified one is copied.  With no
\* destination, the '%' formatting of the message of the ValueError raises
\* TypeError.
ResourceInstallOn(r, destination, f) ==
  IF ~ResourceVerify(r, f) THEN Installed(r, f, "False", FALSE)
  ELSE IF destination = Empty THEN Installed(r, f, "TypeError", TRUE)
  ELSE Installed(r, Copy2(MakeDirsIfMissing(f, destination), r.destination,
                          destination),
                 "True", TRUE)

\* Resource.install(destination)
ResourceInstall(r, destination, f) ==
  ResourceInstallOn(AfterVerify(r, f), destination, f)

\* PyPIResource.install(), once verify() has run
PyPIInstallOn(r, pipOk, f) ==
  IF ~ResourceVerify(r, f) THEN Installed(r, f, "False", FALSE)
  ELSE Installed(r, f, IF pipOk THEN "True" ELSE "False", TRUE)

\* PyPIResource.install(): pipOk is whether `pip install` exits with 0
PyPIInstall(r, pipOk, f) == PyPIInstallOn(AfterVerify(r, f), pipOk, f)

\* resource.install(...), by the class of the resource
Install(r, destination, pipOk, f) ==
  IF r.cls = "PyPIResource" THEN PyPIInstall(r, pipOk, f)
  ELSE ResourceInstall(r, destination, f)

(***************************************************************************)
(* The state                                                               *)
(***************************************************************************)
VARIABLES
  resdefs,       \* the declaration file the program is given
  loaded,        \* resources_cache holds the container
  container,     \* the ResourceContainer
  index,         \* PyPIResource._index, the class attribute
  fs,            \* the filesystem
  pc,            \* "idle", or "fetch" inside the loop of _fetch
  pass,          \* the arguments and locals of the running _fetch
  log,           \* the callback and fetch() calls of the running _fetch
  outcome,       \* what the last call returned or raised
  calls,         \* the calls made so far
  lastValid,     \* the names the last fetch() found valid on return, while
                 \* no other call has come after it
  snap,          \* at a restart: the resources that verified just before it
  everRequired   \* the names add_required was ever called with

vars ==
  << resdefs, loaded, container, index, fs, pc, pass, log, outcome, calls,
     lastValid, snap, everRequired >>

\* The calls of one run
MaxCalls == 2

\* The directory install() is given
InstallDir == << "i" >>

\* The selectors the calls are made with
Selectors ==
  { WhichNone, WhichAll, WhichName(NameA), WhichList(<< NameB, NameA >>),
    WhichName(NameZ) }

\* The mirror and the callback fetch() is given: no mirror, with and without
\* a callback, and the mirror with a callback
Ways ==
  { [ mirror_url |-> Empty, reporthook |-> TRUE ],
    [ mirror_url |-> Empty, reporthook |-> FALSE ],
    [ mirror_url |-> MirrorM, reporthook |-> TRUE ] }

\* The files the environment puts into the output directory: the local
\* resource's artifact, and other content in the place of a URL resource's
\* and of a package's artifact
EnvFiles ==
  { [ path |-> PathJoin(OUT, << "l" >>), data |-> DataX ],
    [ path |-> PathJoin(OUT, << "u" >>), data |-> DataY ],
    [ path |-> PathJoin(PathJoin(OUT, PkgAB), FileAB), data |-> DataY ] }

\* The paths the environment removes
EnvPaths == { file.path : file \in EnvFiles }

NoPass ==
  [ which |-> WhichNone, mirror_url |-> Empty, force |-> FALSE,
    reporthook |-> FALSE, invalid |-> {}, names |-> << >>, queue |-> << >>,
    before |-> {} ]

NoOutcome ==
  [ call |-> "", name |-> Empty, raised |-> "", value |-> FALSE,
    verified |-> FALSE, wrote |-> FALSE, names |-> << >>, path |-> Empty,
    which |-> WhichNone, definition |-> << >>, prior |-> ResourceContainer(OUT) ]

\* A declaration file that declares nothing
NoDeclaration == [ resources |-> NoGroup, optional_resources |-> NoGroup ]

Init ==
  /\ resdefs \in Declarations
  /\ loaded = FALSE
  /\ container = ResourceContainer(OUT)
  /\ index = {}
  /\ fs = << >>
  /\ pc = "idle"
  /\ pass = NoPass
  /\ log = << >>
  /\ outcome = NoOutcome
  /\ calls = 0
  /\ lastValid = {}
  /\ snap = << >>
  /\ everRequired = {}

\* _load(resources_yaml, None): the cached container, built on the first call
Loaded == IF loaded THEN container ELSE Load(resdefs)

\* The names of the container whose resources do not verify
AllInvalid(c, f) == { n \in DOMAIN c.dict : ~Verify(c.dict[n], f) }

(***************************************************************************)
(* fetch(which, mirror_url, force=force, reporthook=...): _load, then      *)
(* _fetch up to its loop.  A KeyError of subset() ends the call.           *)
(***************************************************************************)
\* _fetch: invalid = _invalid(resources, which) has returned
FetchEntered(which, mirror_url, force, reporthook, names, inv, before) ==
  /\ container' = inv.container
  /\ pc' = "fetch"
  /\ pass' = [ which |-> which, mirror_url |-> mirror_url, force |-> force,
               reporthook |-> reporthook, invalid |-> inv.invalid,
               names |-> names, queue |-> names, before |-> before ]
  /\ outcome' = NoOutcome
  /\ UNCHANGED lastValid

\* _fetch: resources.subset(which) has returned or raised
FetchSelected(which, mirror_url, force, reporthook, c, sub) ==
  IF sub.raised # ""
    THEN /\ container' = c
         /\ outcome' = [ NoOutcome EXCEPT !.call = "fetch", !.raised = sub.raised,
                                          !.name = sub.key ]
         /\ lastValid' = {}
         /\ UNCHANGED << pc, pass >>
    ELSE FetchEntered(which, mirror_url, force, reporthook, sub.names,
                      Invalid(c, sub.names, fs), AllInvalid(c, fs))

\* fetch: _load has returned
FetchLoaded(which, mirror_url, force, reporthook, c) ==
  FetchSelected(which, mirror_url, force, reporthook, c, Subset(c, which))

FetchBegin(which, mirror_url, force, reporthook) ==
  /\ pc = "idle"
  /\ calls < MaxCalls
  /\ calls' = calls + 1
  /\ loaded' = TRUE
  /\ snap' = << >>
  /\ log' = << >>
  /\ FetchLoaded(which, mirror_url, force, reporthook, Loaded)
  /\ UNCHANGED << resdefs, index, fs, everRequired >>

\* A faulty test of the loop of _fetch, which ignores force
SkipsValid(name, invalid, force) == name \notin invalid

\* if resource.name not in invalid and not force: continue
Skips(name, invalid, force) == name \notin invalid /\ ~force

\* The loop of _fetch on a resource that is valid, with force unset: continue
FetchSkip ==
  /\ pc = "fetch"
  /\ pass.queue # << >>
  /\ Skips(Head(pass.queue), pass.invalid, pass.force)
  /\ pass' = [ pass EXCEPT !.queue = Tail(pass.queue) ]
  /\ UNCHANGED << resdefs, loaded, container, index, fs, pc, log, outcome, calls,
                  lastValid, snap, everRequired >>

Event(ev, name, reqs) == [ ev |-> ev, name |-> name, reqs |-> reqs ]

\* A faulty _fetch, which never calls the callback
HookedNever(reporthook, name) == << >>

\* if reporthook: reporthook(resource.name)
Hooked(reporthook, name) ==
  IF reporthook THEN << Event("hook", name, << >>) >> ELSE << >>

\* The installer's outcomes for a spec
PipOutcomes(spec) ==
  { [ ok |-> FALSE, files |-> << >> ] }
    \cup { [ ok |-> TRUE, files |-> d ] : d \in PipDownloads(spec) }

\* The URLs whose request may fail while resource r is fetched: the ones the
\* fetch may ask for
Fallible(r, mirror_url) ==
  IF r.cls = "Resource" THEN {}
  ELSE IF r.cls = "URLResource" \/ r.url # Empty
    THEN { Requested(URLFetchUrl(r, mirror_url)) }
           \cup (IF UrlScheme(r.hash) # Empty THEN { Requested(r.hash) } ELSE {})
  ELSE { u \in DOMAIN WebPages : StartsWith(u, PyPIMirror(mirror_url)) }

\* resource.fetch(mirror_url) has returned or raised.  An exception ends the
\* call.
Fetched(name, got) ==
  /\ container' = [ container EXCEPT !.dict[name] = got.r ]
  /\ fs' = got.fs
  /\ index' = got.index
  /\ log' = log \o Hooked(pass.reporthook, name) \o << Event("fetch", name, got.reqs) >>
  /\ IF got.raised
       THEN /\ pc' = "idle"
            /\ pass' = NoPass
            /\ outcome' = [ NoOutcome EXCEPT !.call = "fetch", !.raised = "IOError",
                                             !.name = name ]
       ELSE /\ pass' = [ pass EXCEPT !.queue = Tail(pass.queue) ]
            /\ UNCHANGED << pc, outcome >>

\* The requests that fail while one resource is fetched: none, one of the
\* ones the fetch may make, or all of them
Failures(urls) == { {} } \cup { { u } : u \in urls } \cup { urls }

\* The callback, then resource.fetch(mirror_url), whatever the network and
\* the installer do
FetchResource(name, r) ==
  \E pip \in PipOutcomes(r.spec) :
    \E down \in Failures(Fallible(r, pass.mirror_url)) :
      Fetched(name, Fetch(r, pass.mirror_url, fs, index, pip, down))

\* The loop of _fetch on a resource to fetch
FetchOne ==
  /\ pc = "fetch"
  /\ pass.queue # << >>
  /\ ~Skips(Head(pass.queue), pass.invalid, pass.force)
  /\ FetchResource(Head(pass.queue), container.dict[Head(pass.queue)])
  /\ UNCHANGED << resdefs, loaded, calls, lastValid, snap, everRequired >>

\* return not _invalid(resources, which), once _invalid has returned
FetchReturned(names, inv) ==
  /\ container' = inv.container
  /\ outcome' = [ NoOutcome EXCEPT !.call = "fetch", !.names = names,
                                   !.value = (inv.invalid = {}) ]
  /\ lastValid' = Range(names) \ inv.invalid

\* The end of fetch(), once subset() has returned again
FetchReturning(sub) == FetchReturned(sub.names, Invalid(container, sub.names, fs))

\* The end of fetch(): return not _invalid(resources, which)
FetchEnd ==
  /\ pc = "fetch"
  /\ pass.queue = << >>
  /\ FetchReturning(Subset(container, pass.which))
  /\ pc' = "idle"
  /\ pass' = NoPass
  /\ log' = << >>
  /\ UNCHANGED << resdefs, loaded, index, fs, calls, snap, everRequired >>

\* verify: subset() has returned or raised, and _invalid has returned
VerifyReturned(c, sub, inv) ==
  /\ container' = IF sub.raised # "" THEN c ELSE inv.container
  /\ outcome' = [ NoOutcome EXCEPT
                    !.call = "verify", !.raised = sub.raised, !.name = sub.key,
                    !.names = sub.names,
                    !.value = (sub.raised = "" /\ inv.invalid = {}) ]

\* verify: _load has returned
VerifySelected(c, sub) == VerifyReturned(c, sub, Invalid(c, sub.names, fs))

VerifyLoaded(which, c) == VerifySelected(c, Subset(c, which))

\* verify(which): not _invalid(resources, which)
VerifyCall(which) ==
  /\ pc = "idle"
  /\ calls < MaxCalls
  /\ calls' = calls + 1
  /\ loaded' = TRUE
  /\ VerifyLoaded(which, Loaded)
  /\ lastValid' = {}
  /\ UNCHANGED << resdefs, index, fs, pc, pass, log, snap, everRequired >>

\* install has returned or raised
InstallReturned(name, c, got) ==
  /\ container' = [ c EXCEPT !.dict[name] = got.r ]
  /\ fs' = got.fs
  /\ outcome' = [ NoOutcome EXCEPT
                    !.call = "install", !.name = name,
                    !.raised = IF got.result = "TypeError" THEN "TypeError" ELSE "",
                    !.value = (got.result = "True"),
                    !.verified = got.verified,
                    !.wrote = (got.fs # fs) ]

\* The arguments are the ones install takes: a PyPIResource's takes none
InstallOf(name, destination, pipOk, c, r) ==
  /\ r.cls = "PyPIResource" => destination = Empty
  /\ r.cls # "PyPIResource" => pipOk
  /\ InstallReturned(name, c, Install(r, destination, pipOk, fs))

InstallLoaded(name, destination, pipOk, c) ==
  /\ name \in DOMAIN c.dict
  /\ InstallOf(name, destination, pipOk, c, c.dict[name])

\* resources[name].install(destination), or .install() of a PyPIResource
InstallCall(name, destination, pipOk) ==
  /\ pc = "idle"
  /\ calls < MaxCalls
  /\ InstallLoaded(name, destination, pipOk, Loaded)
  /\ calls' = calls + 1
  /\ loaded' = TRUE
  /\ lastValid' = {}
  /\ snap' = << >>
  /\ UNCHANGED << resdefs, index, pc, pass, log, everRequired >>

\* resource_path: _load has returned
ResourcePathLoaded(resource_name, c) ==
  /\ container' = c
  /\ outcome' = IF resource_name \in DOMAIN c.dict
                  THEN [ NoOutcome EXCEPT !.call = "resource_path",
                                          !.name = resource_name,
                                          !.path = c.dict[resource_name].destination ]
                  ELSE [ NoOutcome EXCEPT !.call = "resource_path",
                                          !.name = resource_name,
                                          !.raised = "KeyError" ]

\* resource_path(resource_name): resources[resource_name].destination
ResourcePath(resource_name) ==
  /\ pc = "idle"
  /\ calls < MaxCalls
  /\ ResourcePathLoaded(resource_name, Loaded)
  /\ calls' = calls + 1
  /\ loaded' = TRUE
  /\ lastValid' = {}
  /\ snap' = << >>
  /\ UNCHANGED << resdefs, index, fs, pc, pass, log, everRequired >>

\* The environment puts a file into the output directory
EnvWrite(path, data) ==
  /\ pc = "idle"
  /\ calls < MaxCalls
  /\ ~IsDir(fs, path)
  /\ calls' = calls + 1
  /\ fs' = WriteFile(MakeDirs(fs, Dirname(path)), path, data)
  /\ outcome' = NoOutcome
  /\ lastValid' = {}
  /\ snap' = << >>
  /\ UNCHANGED << resdefs, loaded, container, index, pc, pass, log, everRequired >>

\* The environment removes a file of the output directory
EnvRemove(path) ==
  /\ pc = "idle"
  /\ calls < MaxCalls
  /\ IsFile(fs, path)
  /\ calls' = calls + 1
  /\ fs' = Remove(fs, path)
  /\ outcome' = NoOutcome
  /\ lastValid' = {}
  /\ snap' = << >>
  /\ UNCHANGED << resdefs, loaded, container, index, pc, pass, log, everRequired >>

\* The resources of a container, once verified, that verify
Valid(c, f) ==
  [ n \in { m \in DOMAIN c.dict : ResourceVerify(c.dict[m], f) } |-> c.dict[n] ]

\* The process ends and a new one starts: the module's resources_cache and
\* the class's _index are gone, the filesystem stays
Restart ==
  /\ pc = "idle"
  /\ calls < MaxCalls
  /\ loaded
  /\ calls' = calls + 1
  /\ loaded' = FALSE
  /\ container' = ResourceContainer(OUT)
  /\ index' = {}
  /\ outcome' = NoOutcome
  /\ lastValid' = {}
  /\ snap' = Valid(Verified(container, DOMAIN container.dict, fs), fs)
  /\ UNCHANGED << resdefs, fs, pc, pass, log, everRequired >>

Next ==
  \/ \E which \in Selectors, force \in BOOLEAN, how \in Ways :
       FetchBegin(which, how.mirror_url, force, how.reporthook)
  \/ FetchSkip
  \/ FetchOne
  \/ FetchEnd
  \/ \E which \in Selectors : VerifyCall(which)
  \/ \E name \in { NameA, NameB }, destination \in { Empty, InstallDir },
        pipOk \in BOOLEAN :
       InstallCall(name, destination, pipOk)
  \/ \E resource_name \in { NameA, NameB, NameZ } : ResourcePath(resource_name)
  \/ \E file \in EnvFiles : EnvWrite(file.path, file.data)
  \/ \E path \in EnvPaths : EnvRemove(path)
  \/ Restart

Spec == Init /\ [][Next]_vars

(***************************************************************************)
(* The container on its own: any add_required, add_optional and subset     *)
(* calls, on a container that starts empty.                                *)
(***************************************************************************)
\* The add_required and add_optional calls of one run
MaxAdds == 2

\* The definitions the resources are added with
AddedDefinitions == { DefLocal, DefUrl, DefBare }

\* The selectors subset() is given
SubsetSelectors ==
  Selectors \cup { WhichList(<< >>), WhichList(<< NameA, NameZ >>), WhichName(NameB) }

InitContainer ==
  /\ resdefs = NoDeclaration
  /\ loaded = TRUE
  /\ container = ResourceContainer(OUT)
  /\ index = {}
  /\ fs = << >>
  /\ pc = "idle"
  /\ pass = NoPass
  /\ log = << >>
  /\ outcome = NoOutcome
  /\ calls = 0
  /\ lastValid = {}
  /\ snap = << >>
  /\ everRequired = {}

\* resources.add_required(name, definition)
AddRequiredCall(name, definition) ==
  /\ calls < MaxAdds
  /\ calls' = calls + 1
  /\ container' = AddRequired(container, name, definition)
  /\ everRequired' = everRequired \cup { name }
  /\ outcome' = [ NoOutcome EXCEPT !.call = "add_required", !.name = name,
                                   !.definition = definition, !.prior = container ]
  /\ UNCHANGED << resdefs, loaded, index, fs, pc, pass, log, lastValid, snap >>

\* resources.add_optional(name, definition)
AddOptionalCall(name, definition) ==
  /\ calls < MaxAdds
  /\ calls' = calls + 1
  /\ container' = AddOptional(container, name, definition)
  /\ outcome' = [ NoOutcome EXCEPT !.call = "add_optional", !.name = name,
                                   !.definition = definition, !.prior = container ]
  /\ UNCHANGED << resdefs, loaded, index, fs, pc, pass, log, lastValid, snap,
                  everRequired >>

\* subset has returned or raised
SubsetReturned(which, sub) ==
  outcome' = [ NoOutcome EXCEPT !.call = "subset", !.which = which,
                                !.raised = sub.raised, !.name = sub.key,
                                !.names = sub.names ]

\* resources.subset(which)
SubsetCall(which) ==
  /\ SubsetReturned(which, Subset(container, which))
  /\ UNCHANGED << resdefs, loaded, container, index, fs, pc, pass, log, calls,
                  lastValid, snap, everRequired >>

NextContainer ==
  \/ \E name \in { NameA, NameB }, definition \in AddedDefinitions :
       AddRequiredCall(name, definition)
  \/ \E name \in { NameA, NameB }, definition \in AddedDefinitions :
       AddOptionalCall(name, definition)
  \/ \E which \in SubsetSelectors : SubsetCall(which)

SpecContainer == InitContainer /\ [][NextContainer]_vars

(***************************************************************************)
(* The mirror: PyPIResource.build_pypi_indexes writes a page into each     *)
(* package directory that holds a sidecar file, and the static file server *)
(* of the `serve` command hands the directory out again, so that           *)
(* get_remote_hash can be run against it.                                  *)
(***************************************************************************)
\* 'index.html'
IndexName == << "i", "n", "d", "e", "x", ".", "h", "t", "m", "l" >>

\* The text of the page, in the pieces build_pypi_indexes formats
HtmlOpen == << "<", "h", "t", "m", "l", ">" >>
HeadOpen == << " ", " ", "<", "h", "e", "a", "d", ">" >>
TitleOpen == << " ", " ", " ", " ", "<", "t", "i", "t", "l", "e", ">", "L", "i", "n", "k", "s", " ", "f", "o", "r", " " >>
TitleClose == << "<", "/", "t", "i", "t", "l", "e", ">" >>
MetaLine ==
  << " ", " ", " ", " ", "<", "m", "e", "t", "a", " ", "n", "a", "m", "e",
     "=", "\"", "a", "p", "i", "-", "v", "e", "r", "s", "i", "o", "n", "\"",
     " ", "v", "a", "l", "u", "e", "=", "\"", "2", "\"", " ", "/", ">" >>
HeadClose == << " ", " ", "<", "/", "h", "e", "a", "d", ">" >>
BodyOpen == << " ", " ", "<", "b", "o", "d", "y", ">" >>
H1Open == << " ", " ", " ", " ", "<", "h", "1", ">", "L", "i", "n", "k", "s", " ", "f", "o", "r", " " >>
H1Close == << "<", "/", "h", "1", ">" >>
\* 'href="', where the value of an href starts
AnchorHref == << "h", "r", "e", "f", "=", "\"" >>

AnchorOpen == << " ", " ", " ", " ", "<", "a", " ", "h", "r", "e", "f", "=", "\"" >>
AnchorRel == << "\"", " ", "r", "e", "l", "=", "\"", "i", "n", "t", "e", "r", "n", "a", "l", "\"", ">" >>
BodyClose == << " ", " ", "<", "/", "b", "o", "d", "y", ">" >>
HtmlClose == << "<", "/", "h", "t", "m", "l", ">" >>

\* A faulty anchor line, whose fragment is the digest with no algorithm
IndexAnchorLineNoAlgorithm(res) ==
  AnchorOpen \o res.filename \o << "#" >> \o res.hash \o AnchorRel \o res.filename
    \o H1Close

\* '    <a href="{0.filename}#{0.hash_type}={0.hash}" rel="internal">'
\* '{0.filename}</h1>'.format(res)
IndexAnchorLine(res) ==
  AnchorOpen \o res.filename \o << "#" >> \o res.hash_type \o << "=" >> \o res.hash
    \o AnchorRel \o res.filename \o H1Close

\* The lines of the page of a package
IndexLines(res) ==
  << HtmlOpen, HeadOpen, TitleOpen \o res.package_name \o TitleClose, MetaLine,
     HeadClose, BodyOpen, H1Open \o res.package_name \o H1Close,
     IndexAnchorLine(res), BodyClose, HtmlClose >>

\* '\n'.join([...])
IndexHtml(res) == Join(IndexLines(res), "\n")

\* build_pypi_indexes, one entry, once get_local_hash has run: no page for a
\* package whose hash is not known
IndexWritten(f, candidate, res) ==
  IF res.hash_type = Empty THEN f
  ELSE WriteFile(f, PathJoin(candidate, IndexName), IndexHtml(res))

\* build_pypi_indexes, one entry of the root directory
IndexEntry(f, root_dir, entry, candidate) ==
  IF ~IsDir(f, candidate) THEN f
  ELSE IndexWritten(f, candidate,
                    GetLocalHash(PyPIResourceInit(entry, [ pypi |-> entry ], root_dir),
                                 f))

\* build_pypi_indexes, from place i of the listing of the root directory on
RECURSIVE IndexFrom(_, _, _, _)
IndexFrom(f, root_dir, listing, i) ==
  IF i > Len(listing) THEN f
  ELSE IndexFrom(IndexEntry(f, root_dir, listing[i], PathJoin(root_dir, listing[i])),
                 root_dir, listing, i + 1)

\* PyPIResource.build_pypi_indexes(root_dir): the filesystem as it leaves it
BuildPyPIIndexes(f, root_dir) == IndexFrom(f, root_dir, ListDir(f, root_dir), 1)

\* The place where p starts in s for the first time, 0 when it does not
FindSeq(s, p) ==
  IF \E i \in 1..(Len(s) - Len(p) + 1) : SubSeq(s, i, i + Len(p) - 1) = p
    THEN Min({ i \in 1..(Len(s) - Len(p) + 1) : SubSeq(s, i, i + Len(p) - 1) = p })
    ELSE 0

\* An anchor as the regular expressions of the resolver read it off a line
\* of markup: the quoted value of href, what stands between the closing
\* quote and the '>', and the text up to the next '<'
AnchorText(href, tail, g) ==
  Anchor(href, Before(tail, g),
         Before(From(tail, g + 1), Find(From(tail, g + 1), "<")))

AnchorTail(href, tail) ==
  IF Find(tail, ">") = 0 THEN << >> ELSE << AnchorText(href, tail, Find(tail, ">")) >>

AnchorQuoted(rest, q) ==
  IF q = 0 THEN << >> ELSE AnchorTail(Before(rest, q), From(rest, q + 1))

AnchorFrom(rest) == AnchorQuoted(rest, Find(rest, "\""))

AnchorAt(line, i) ==
  IF i = 0 THEN << >> ELSE AnchorFrom(From(line, i + Len(AnchorHref)))

\* The anchor of a line, as a list: empty when the line holds none
LineAnchor(line) == AnchorAt(line, FindSeq(line, AnchorHref))

\* for line in fp: the anchors of the lines of a document
RECURSIVE LineAnchors(_)
LineAnchors(lines) ==
  IF lines = << >> THEN << >>
  ELSE LineAnchor(Head(lines)) \o LineAnchors(Tail(lines))

PageAnchors(text) == LineAnchors(Split(text, "\n"))

\* The static file server of `serve`, run in root_dir: the listing it gives
\* for the root names every entry of the directory, a directory with a
\* trailing slash, so that the index regular expression reads the names
ServedProjects(f, root_dir) == Range(ListDir(f, root_dir))

\* The static file server: the page it gives for <mirror>/<name>, the
\* index.html of that directory; none (IOError) when there is no such file
ServedPage(f, root_dir, package_name) ==
  PathJoin(PathJoin(root_dir, package_name), IndexName)

\* get_remote_hash, the scan of the page the server gives
MirrorHashAt(f, filename, page) ==
  IF ~IsFile(f, page) THEN << Empty, Empty >>
  ELSE FirstLink(PageAnchors(ReadFile(f, page)), filename, 1)

\* PyPIResource.get_remote_hash(filename, mirror_url) against the mirror the
\* server hands out of root_dir, the class's _index not yet set
MirrorHash(f, root_dir, filename) ==
  MirrorHashAt(f, filename,
               ServedPage(f, root_dir,
                          PackageNameFromFilename(filename,
                                                  ServedProjects(f, root_dir))))

(***************************************************************************)
(* The package-index resolver on its own: bare-spec packages fetched into  *)
(* the output directory, package names resolved against one mirror or      *)
(* another, the mirror pages built, and hashes looked up on the mirror     *)
(* that serves the output directory.  `log` holds the requests of the      *)
(* whole process, call by call.                                            *)
(***************************************************************************)
\* The fetch, resolve and build calls of one run
MaxResolverCalls == 2

\* The definitions of the packages fetched
PackageDefinitions == { DefBare, DefBarePinned, DefDep }

\* The index url a caller passes on: mirror_url.rstrip('/') + '/'
MirrorUrls == { PyPIMirror(Empty), PyPIMirror(MirrorM) }

\* The file names that are resolved and looked up
FileNames == { FileAB, FileCD, FileABC }

NoResolved ==
  [ call |-> "", after |-> "", r |-> ResourceGet(NameA, DefBare, OUT),
    before |-> << >>, files |-> {}, mirror_url |-> Empty, filename |-> Empty,
    name |-> Empty, groups |-> << Empty, Empty >>, held |-> {}, index |-> {} ]

InitResolver ==
  /\ resdefs = NoDeclaration
  /\ loaded = TRUE
  /\ container = ResourceContainer(OUT)
  /\ index = {}
  /\ fs = << >>
  /\ pc = "idle"
  /\ pass = NoPass
  /\ log = << >>
  /\ outcome = NoResolved
  /\ calls = 0
  /\ lastValid = {}
  /\ snap = << >>
  /\ everRequired = {}

\* fetch() of the package has returned
PackageFetched(mirror_url, pip, got) ==
  /\ fs' = got.fs
  /\ index' = got.index
  /\ log' = log \o << Event("fetch", PyPIMirror(mirror_url), got.reqs) >>
  /\ outcome' = [ NoResolved EXCEPT
                    !.call = "fetch", !.after = outcome.call, !.r = got.r,
                    !.before = fs, !.files = IF pip.ok THEN DOMAIN pip.files ELSE {},
                    !.mirror_url = PyPIMirror(mirror_url), !.held = index,
                    !.index = got.index ]

\* Resource.get(name, definition, output_dir).fetch(mirror_url) of a
\* bare-spec package, whatever the installer and the network do
FetchPackage(definition, mirror_url, r) ==
  /\ calls < MaxResolverCalls
  /\ calls' = calls + 1
  /\ \E pip \in PipOutcomes(r.spec) :
       \E down \in Failures(Fallible(r, mirror_url)) :
         PackageFetched(mirror_url, pip, Fetch(r, mirror_url, fs, index, pip, down))
  /\ UNCHANGED << resdefs, loaded, container, pc, pass, lastValid, snap,
                  everRequired >>

\* _package_name_from_filename: _get_index has returned
NameResolved(filename, mirror_url, got) ==
  /\ index' = got.index
  /\ log' = log \o << Event("resolve", mirror_url, got.reqs) >>
  /\ outcome' = [ NoResolved EXCEPT
                    !.call = "resolve", !.after = outcome.call,
                    !.filename = filename, !.mirror_url = mirror_url,
                    !.name = PackageNameFromFilename(filename, got.index),
                    !.held = index, !.index = got.index ]

\* PyPIResource._package_name_from_filename(filename, mirror_url), the
\* listing page of the mirror up or down
ResolveName(filename, mirror_url) ==
  /\ calls < MaxResolverCalls
  /\ calls' = calls + 1
  /\ \E down \in { {}, { mirror_url } } :
       NameResolved(filename, mirror_url, GetIndex(index, mirror_url, down))
  /\ UNCHANGED << resdefs, loaded, container, fs, pc, pass, lastValid, snap,
                  everRequired >>

\* PyPIResource.build_pypi_indexes(output_dir)
BuildIndexes ==
  /\ calls < MaxResolverCalls
  /\ calls' = calls + 1
  /\ fs' = BuildPyPIIndexes(fs, OUT)
  /\ outcome' = [ NoResolved EXCEPT !.call = "build", !.after = outcome.call,
                                    !.before = fs ]
  /\ UNCHANGED << resdefs, loaded, container, index, pc, pass, log, lastValid,
                  snap, everRequired >>

\* get_remote_hash(filename, mirror_url) by a new process, the mirror being
\* the output directory as the static file server hands it out
DiscoverHash(filename) ==
  /\ outcome.call # "discover"
  /\ outcome' = [ NoResolved EXCEPT !.call = "discover", !.after = outcome.call,
                                    !.filename = filename,
                                    !.groups = MirrorHash(fs, OUT, filename) ]
  /\ UNCHANGED << resdefs, loaded, container, index, fs, pc, pass, log, calls,
                  lastValid, snap, everRequired >>

NextResolver ==
  \/ \E definition \in PackageDefinitions, mirror_url \in { Empty, MirrorM } :
       FetchPackage(definition, mirror_url, ResourceGet(NameA, definition, OUT))
  \/ \E filename \in FileNames, mirror_url \in MirrorUrls :
       ResolveName(filename, mirror_url)
  \/ BuildIndexes
  \/ \E filename \in FileNames : DiscoverHash(filename)

SpecResolver == InitResolver /\ [][NextResolver]_vars

(***************************************************************************)
(* The claims                                                              *)
(***************************************************************************)
\* The resource as the declaration makes it, before any call
Declared(n) == Load(resdefs).dict[n]

\* The destination is a file, the algorithm is supported and the digest of
\* the whole content under it is the hash
Matches(r, f, hash) ==
  /\ IsFile(f, r.destination)
  /\ r.hash_type \in AlgorithmSet
  /\ HexDigest(r.hash_type, ReadFile(f, r.destination)) = hash

\* verify() of resource r, which it leaves as `after`, is true exactly when
\* the resource then matches the hash
VerifyIsMatch(r, after, f, hash) == Verify(r, f) = Matches(after, f, hash)

VerifyIsCurrentMatch(r, after, f) == VerifyIsMatch(r, after, f, after.hash)

\* What verify(which) or fetch(which) returned is whether every selected
\* resource matches its hash
ReturnedMatches ==
  (outcome.call \in { "verify", "fetch" } /\ outcome.raised = "")
    => outcome.value =
         (\A n \in Range(outcome.names) :
            Matches(container.dict[n], fs, container.dict[n].hash))

\* C1 as the specification words it: verify() is true exactly when the
\* destination file exists, the algorithm is supported and the digest equals
\* the hash the declaration gives the resource.
C1_VerifyIffDeclaredHash ==
  \A n \in DOMAIN container.dict :
    VerifyIsMatch(container.dict[n], AfterVerify(container.dict[n], fs), fs,
                  Declared(n).hash)

\* C1: for every resource of every kind and every filesystem state, verify()
\* is true exactly when the destination file exists, the resource's
\* algorithm is supported and the digest of the whole file under it equals
\* the hash the resource holds at that moment (the declared one, or the one
\* a fetch learned from a hash endpoint or an index page, or the one verify
\* adopted from a sidecar file); otherwise it is false, and it never raises.
C1_VerifyIffCurrentHash ==
  /\ \A n \in DOMAIN container.dict :
       VerifyIsCurrentMatch(container.dict[n], AfterVerify(container.dict[n], fs), fs)
  /\ ReturnedMatches

\* C1, its case: verify(which) returned true for a resource whose hash is
\* not the declared one
C1_Witness ==
  /\ outcome.call = "verify"
  /\ outcome.value
  /\ \E n \in Range(outcome.names) : container.dict[n].hash # Declared(n).hash

\* The names of the events of one kind, in the order of the log
RECURSIVE EventNames(_, _)
EventNames(events, ev) ==
  IF events = << >> THEN << >>
  ELSE (IF events[1].ev = ev THEN << events[1].name >> ELSE << >>)
         \o EventNames(Tail(events), ev)

\* The names of a list that a pass has to fetch
RECURSIVE ToFetch(_, _, _)
ToFetch(names, invalid, force) ==
  IF names = << >> THEN << >>
  ELSE (IF names[1] \in invalid \/ force THEN << names[1] >> ELSE << >>)
         \o ToFetch(Tail(names), invalid, force)

\* The selected names the loop of the running pass has gone through
Done == SubSeq(pass.names, 1, Len(pass.names) - Len(pass.queue))

\* C2: in a fetch pass, the fetch() of a selected resource is invoked if and
\* only if the resource failed verify() at the start of the pass or force is
\* true: the fetches made so far are, in order, the ones of the resources
\* gone through that were invalid or forced; and a second fetch right after a
\* first, with force unset, fetches no resource the first left valid.
C2_FetchIffInvalidOrForced ==
  pc = "fetch" =>
    /\ EventNames(log, "fetch") = ToFetch(Done, pass.invalid, pass.force)
    /\ ~pass.force =>
         \A n \in lastValid \cap Range(Done) :
           \A i \in 1..Len(log) : log[i].name # n

\* C2, its case: a second pass with force unset has gone through a resource
\* the first pass left valid, and made no request
C2_Witness ==
  /\ pc = "fetch"
  /\ ~pass.force
  /\ pass.queue = << >>
  /\ lastValid \cap Range(pass.names) # {}
  /\ log = << >>

\* Every request of every fetch of the log failed
AllFailed(events) ==
  \A i \in 1..Len(events) :
    \A j \in 1..Len(events[i].reqs) : ~events[i].reqs[j].ok

\* C3: if every network or installer attempt of a fetch pass fails, the
\* resources that do not verify after the pass are the ones that did not
\* verify before it, for any selector and any value of force.
C3_FailedPassKeepsInvalid ==
  (pc = "fetch" /\ pass.queue = << >> /\ AllFailed(log))
    => AllInvalid(container, fs) = pass.before

\* C3, with force unset: a pass whose attempts all fail leaves the resources
\* as invalid as they were
C3_UnforcedFailedPassKeepsInvalid ==
  (pc = "fetch" /\ pass.queue = << >> /\ AllFailed(log) /\ ~pass.force)
    => AllInvalid(container, fs) = pass.before

\* A fetch event with a request that failed
Failed(event) ==
  event.ev = "fetch" /\ \E j \in 1..Len(event.reqs) : ~event.reqs[j].ok

\* C4: a transport failure in the fetch of one resource (download, hash
\* endpoint, index or detail page, installer) raises nothing out of fetch(),
\* and the pass goes on: no call ends with an IOError, and a pass that has
\* gone through its resources has fetched each one that was to be fetched.
C4_FailureDoesNotStopPass ==
  /\ outcome.raised \notin { "IOError", "CalledProcessError" }
  /\ pc = "fetch" =>
       Len(EventNames(log, "fetch")) = Len(ToFetch(Done, pass.invalid, pass.force))

\* C4, its case: a fetch that failed is followed by the fetch of the next
\* resource
C4_Witness ==
  /\ pc = "fetch"
  /\ \E i \in 1..Len(log) :
       /\ Failed(log[i])
       /\ \E j \in (i + 1)..Len(log) : log[j].ev = "fetch" /\ log[j].name # log[i].name

Bare(r) == r.cls = "PyPIResource" /\ r.url = Empty

\* The resource a new process makes of the declaration of n, once its
\* verify() has run get_local_hash
Recovered(n) == AfterVerify(Declared(n), fs)

\* C6: once a bare-spec package-index resource is fetched and verifies, a
\* resource made anew from the same declaration (a restart, the filesystem
\* unchanged) recovers the same filename, destination, algorithm and digest
\* from the sidecar file and verifies, with no fetch, whether or not the
\* declaration holds a hash.
C6_RestartRecovers ==
  \A n \in DOMAIN snap :
    Bare(snap[n]) =>
      /\ Recovered(n).filename = snap[n].filename
      /\ Recovered(n).destination = snap[n].destination
      /\ Recovered(n).hash_type = snap[n].hash_type
      /\ Recovered(n).hash = snap[n].hash
      /\ ResourceVerify(Recovered(n), fs)

\* C6, for a declaration that holds no hash: the restart recovers the
\* resource from the sidecar file
C6_RestartRecoversUndeclared ==
  \A n \in DOMAIN snap :
    (Bare(snap[n]) /\ (Declared(n).hash = Empty \/ Declared(n).hash_type = Empty)) =>
      /\ Recovered(n).filename = snap[n].filename
      /\ Recovered(n).destination = snap[n].destination
      /\ Recovered(n).hash_type = snap[n].hash_type
      /\ Recovered(n).hash = snap[n].hash
      /\ ResourceVerify(Recovered(n), fs)

\* C6, its case for a declaration that holds no hash: at a restart, a
\* bare-spec resource that was fetched and verified is recovered from its
\* sidecar file
C6_WitnessUndeclared ==
  \E n \in DOMAIN snap :
    /\ Bare(snap[n])
    /\ Declared(n).hash = Empty
    /\ ResourceVerify(Recovered(n), fs)

\* The events of one kind and one name in a log
Count(events, ev, name) ==
  Cardinality({ i \in 1..Len(events) : events[i].ev = ev /\ events[i].name = name })

\* C7: in a fetch pass with a callback, the callback is called once with the
\* name of each resource whose fetch is performed, right before that fetch
\* (nothing of another resource in between), and never for a resource whose
\* fetch is skipped; a pass with no callback calls none.
C7_CallbackBeforeEachFetch ==
  pc = "fetch" =>
    IF pass.reporthook
      THEN /\ \A i \in 1..Len(log) :
                IF log[i].ev = "fetch"
                  THEN i > 1 /\ log[i - 1].ev = "hook" /\ log[i - 1].name = log[i].name
                  ELSE i < Len(log) /\ log[i + 1].ev = "fetch"
                       /\ log[i + 1].name = log[i].name
           /\ \A n \in Range(Done) :
                Count(log, "hook", n)
                  = (IF Skips(n, pass.invalid, pass.force) THEN 0 ELSE 1)
      ELSE \A i \in 1..Len(log) : log[i].ev # "hook"

\* C7, its case: a pass with a callback has fetched one resource, after the
\* callback, and skipped another
C7_Witness ==
  /\ pc = "fetch"
  /\ pass.reporthook
  /\ \E n \in Range(Done) : Count(log, "hook", n) = 1 /\ Count(log, "fetch", n) = 1
  /\ \E n \in Range(Done) : Count(log, "hook", n) = 0 /\ Count(log, "fetch", n) = 0

\* The names of a list are all different
NoDuplicates(names) ==
  \A i, j \in 1..Len(names) : names[i] = names[j] => i = j

\* C8: after any add_required and add_optional calls, subset() gives, for no
\* selector (None or an empty list), the resources of the names added as
\* required; for ALL, every resource of the container once; for one name,
\* that resource; for a list of names, those resources in the order of the
\* list; and for a name the container does not hold, a KeyError that names
\* the first such name.
C8_SubsetSelects ==
  outcome.call = "subset" =>
    IF Falsy(outcome.which)
      THEN /\ outcome.raised = ""
           /\ Range(outcome.names) = everRequired
           /\ NoDuplicates(outcome.names)
    ELSE IF outcome.which.kind = "all"
      THEN /\ outcome.raised = ""
           /\ Range(outcome.names) = DOMAIN container.dict
           /\ NoDuplicates(outcome.names)
    ELSE IF Range(outcome.which.names) \subseteq DOMAIN container.dict
      THEN /\ outcome.raised = ""
           /\ outcome.names = outcome.which.names
    ELSE /\ outcome.raised = "KeyError"
         /\ \E i \in 1..Len(outcome.which.names) :
              /\ outcome.name = outcome.which.names[i]
              /\ outcome.name \notin DOMAIN container.dict
              /\ \A j \in 1..(i - 1) : outcome.which.names[j] \in DOMAIN container.dict

\* C8, its case: subset() of a list of two names gave the two resources in
\* the order of the list, which is not the sorted one
C8_Witness ==
  /\ outcome.call = "subset"
  /\ outcome.which.kind = "list"
  /\ outcome.names = << NameB, NameA >>
  /\ everRequired = { NameA }

\* An add_required or add_optional call with a name the container held
AddedAgain ==
  /\ outcome.call \in { "add_required", "add_optional" }
  /\ outcome.name \in DOMAIN outcome.prior.dict

\* C9 as the specification words it: add_required and add_optional of a name
\* the container holds fail with DuplicateNameError and leave the container
\* as it was.
C9_DuplicateNameRaises ==
  AddedAgain => outcome.raised = "DuplicateNameError" /\ container = outcome.prior

\* C9: add_required and add_optional of a name the container holds raise
\* nothing and replace the resource of that name by the one made of the new
\* definition; the other resources stay, and the required names stay, with
\* the name added to them by add_required.
C9_DuplicateNameOverwrites ==
  AddedAgain =>
    /\ outcome.raised = ""
    /\ DOMAIN container.dict = DOMAIN outcome.prior.dict
    /\ container.dict[outcome.name]
         = ResourceGet(outcome.name, outcome.definition, container.output_dir)
    /\ \A n \in DOMAIN container.dict \ { outcome.name } :
         container.dict[n] = outcome.prior.dict[n]
    /\ container.required
         = outcome.prior.required
             \cup (IF outcome.call = "add_required" THEN { outcome.name } ELSE {})

\* C9, its case: a name was added again, with another definition, and the
\* resource it held is gone
C9_Witness ==
  /\ AddedAgain
  /\ container.dict[outcome.name] # outcome.prior.dict[outcome.name]

\* C10 as the specification words it: the destination of every resource of
\* every kind is not empty, from construction on.
C10_DestinationNeverEmpty ==
  /\ \A n \in DOMAIN container.dict : container.dict[n].destination # Empty
  /\ (outcome.call = "resource_path" /\ outcome.raised = "") => outcome.path # Empty

\* C10: the destination of a local, a URL and a URL-form package-index
\* resource is not empty from construction on; the one of a bare-spec
\* package-index resource is empty at construction, and resource_path gives
\* an empty path only for a bare-spec package-index resource.
C10_DestinationEmptyOnlyIfBare ==
  /\ \A n \in DOMAIN container.dict :
       /\ ~Bare(container.dict[n]) => container.dict[n].destination # Empty
       /\ Bare(Declared(n)) = (Declared(n).destination = Empty)
  /\ (outcome.call = "resource_path" /\ outcome.raised = "" /\ outcome.path = Empty)
       => Bare(container.dict[outcome.name])

\* C10, its case: before any fetch, resource_path gave an empty path for a
\* bare-spec package-index resource, next to a resource of another kind whose
\* destination is set
C10_Witness ==
  /\ outcome.call = "resource_path"
  /\ outcome.raised = ""
  /\ Bare(container.dict[outcome.name])
  /\ outcome.path = Empty
  /\ \E n \in DOMAIN container.dict :
       ~Bare(container.dict[n]) /\ container.dict[n].destination # Empty
  /\ fs = << >>


\* The artifacts of package directory d of the output directory that have a
\* sidecar file next to them, each with the algorithm of the sidecar
Sidecars(f, d) ==
  { p \in Range(ListDir(f, PathJoin(OUT, d))) \X AlgorithmSet :
      /\ IsFile(f, PathJoin(PathJoin(OUT, d), p[1]))
      /\ IsFile(f, PathJoin(PathJoin(OUT, d), p[1]) \o << "." >> \o p[2]) }

\* The digest the sidecar of artifact p[1] of d holds: its first line
StoredDigest(f, d, p) ==
  Before(ReadFile(f, PathJoin(PathJoin(OUT, d), p[1]) \o << "." >> \o p[2]),
         Find(ReadFile(f, PathJoin(PathJoin(OUT, d), p[1]) \o << "." >> \o p[2]),
              "\n"))

\* The directories of the output directory that hold one resolved package:
\* an artifact and its sidecar
ResolvedPackages(f) ==
  { d \in Range(ListDir(f, OUT)) :
      IsDir(f, PathJoin(OUT, d)) /\ Cardinality(Sidecars(f, d)) = 1 }

\* The output directory is a root of per-package directories: it holds
\* nothing but directories
PackageRoot(f) == \A d \in Range(ListDir(f, OUT)) : IsDir(f, PathJoin(OUT, d))

\* The hrefs of the anchors of a document
Hrefs(text) ==
  [ i \in 1..Len(PageAnchors(text)) |-> PageAnchors(text)[i].href ]

\* C11: for a root directory of per-package directories,
\* build_pypi_indexes writes into the directory of each resolved package (an
\* artifact and its hash sidecar) an index.html with one anchor, whose href
\* is the artifact's filename and the fragment '#algorithm=digest' of the
\* sidecar's algorithm and digest; and get_remote_hash of that filename
\* against the mirror that serves the root gives that same (algorithm,
\* digest).
C11_MirrorRoundTrip ==
  /\ outcome.call = "build" =>
       \A d \in ResolvedPackages(outcome.before) :
         \A p \in Sidecars(outcome.before, d) :
           /\ IsFile(fs, PathJoin(PathJoin(OUT, d), IndexName))
           /\ Hrefs(ReadFile(fs, PathJoin(PathJoin(OUT, d), IndexName)))
                = << p[1] \o << "#" >> \o p[2] \o << "=" >>
                       \o StoredDigest(outcome.before, d, p) >>
           /\ PackageRoot(fs) =>
                MirrorHash(fs, OUT, p[1])
                  = << p[2], StoredDigest(outcome.before, d, p) >>
  /\ (outcome.call = "discover" /\ outcome.after = "build" /\ PackageRoot(fs)) =>
       \A d \in ResolvedPackages(fs) :
         \A p \in Sidecars(fs, d) :
           p[1] = outcome.filename
             => outcome.groups = << p[2], StoredDigest(fs, d, p) >>

\* C11, its case: the pages were built over a directory with a resolved
\* package, and the hash of its artifact was then looked up on the mirror
C11_Witness ==
  /\ outcome.call = "discover"
  /\ outcome.after = "build"
  /\ outcome.groups[1] \in AlgorithmSet
  /\ outcome.groups[2] # Empty
  /\ PackageRoot(fs)
  /\ \E d \in ResolvedPackages(fs) :
       \E p \in Sidecars(fs, d) : p[1] = outcome.filename

\* Every call of the process so far was a package-name resolution
OnlyResolutions == \A i \in 1..Len(log) : log[i].ev = "resolve"

\* The resolutions against mirror m that asked for its listing page
ListingRequests(m) ==
  { i \in 1..Len(log) : log[i].name = m /\ log[i].reqs # << >> }

\* The first resolution against mirror m
FirstNeed(m) == Min({ i \in 1..Len(log) : log[i].name = m })

\* The names the listing page of mirror m holds
ListedNames(m) == PageProjects(WebPages[m])

\* The names a cache kept by mirror holds for m: the ones of m's own listing
\* page, read at the first need for m; none when that request failed
Scraped(m) ==
  IF \E j \in 1..Len(log[FirstNeed(m)].reqs) : ~log[FirstNeed(m)].reqs[j].ok
    THEN {} ELSE ListedNames(m)

\* C12, the listing page of a mirror is asked for at most once in a process,
\* also when it gave no names.
C12_ListingFetchedOnce ==
  OnlyResolutions => \A m \in MirrorUrls : Cardinality(ListingRequests(m)) <= 1

\* C12, a resolution against mirror M uses the names of M's own listing page.
C12_NamesOfOwnMirror ==
  (OnlyResolutions /\ outcome.call = "resolve") =>
    outcome.name
      = LongestKnown(Split(outcome.filename, "-"), Scraped(outcome.mirror_url))

\* C12: the known-name cache is kept by mirror URL: over any package-name
\* resolutions against any mirrors in one process, the names used for
\* mirror M are the ones read from M's own listing page at the first need
\* for M, that page is asked for at most once (also when it gave no names),
\* and the names of another mirror are never used for M.
C12_IndexKeyedByMirror == C12_ListingFetchedOnce /\ C12_NamesOfOwnMirror

\* The paths that are a resource's own: its destination file and, for a
\* bare-spec package, its per-package directory
PathsOf(r) ==
  (IF r.destination # Empty THEN { Norm(r.destination) } ELSE {})
    \cup (IF Bare(r) THEN { Norm(r.destination_dir) } ELSE {})

\* What a filesystem holds at a path: nothing, or one entry
EntryAt(f, p) == IF p \in DOMAIN f THEN << f[p] >> ELSE << >>

\* A step of the loop of _fetch that fetches a resource
IsFetchStep == pc = "fetch" /\ pass.queue # << >> /\ Len(log') > Len(log)

\* The step leaves what resource m owns as it was, and m as valid as it was
KeepsPathsOf(m) ==
  /\ \A p \in PathsOf(container.dict[m]) : EntryAt(fs', p) = EntryAt(fs, p)
  /\ Verify(container'.dict[m], fs') = Verify(container.dict[m], fs)

\* The step deletes nothing of what resource m owns
DeletesNoPathOf(m) ==
  \A p \in PathsOf(container.dict[m]) :
    p \in DOMAIN fs => (p \in DOMAIN fs' /\ fs'[p].kind = fs[p].kind)

NameOfFile(n) == PackageNameFromFilename(n, outcome.index)

\* A bare-spec fetch whose installer downloaded files and which knew the
\* names of its mirror's own listing page
FetchedWithListing ==
  /\ outcome.call = "fetch"
  /\ outcome.files # {}
  /\ outcome.index = ListedNames(outcome.mirror_url)

\* C14: in a bare-spec package-index fetch, a downloaded file is recorded as
\* the resource's primary artifact if and only if the package name resolved
\* from its filename (the longest hyphen-delimited prefix the mirror's
\* listing names) is the requested package name: the filename the resource
\* ends with is a downloaded file of the requested package, its destination
\* is that file in the per-package directory, and it has one if such a file
\* was downloaded; a file of another package never becomes it.
C14_PrimaryIffNameResolves ==
  FetchedWithListing =>
    /\ outcome.r.filename # Empty =>
         /\ outcome.r.filename \in outcome.files
         /\ NameOfFile(outcome.r.filename) = outcome.r.package_name
         /\ outcome.r.destination
              = PathJoin(outcome.r.destination_dir, outcome.r.filename)
    /\ (\E n \in outcome.files : NameOfFile(n) = outcome.r.package_name)
         => outcome.r.filename # Empty

\* A file the fetch downloaded whose package name resolves to the empty name
Unresolved(n) ==
  /\ outcome.call = "fetch"
  /\ n \in outcome.files
  /\ NameOfFile(n) = Empty

\* The paths the fetch made that were not there before it
MadePaths == DOMAIN fs \ DOMAIN outcome.before

\* C15: in a bare-spec package-index fetch, when the package name of a
\* downloaded dependency file resolves to the empty name, the relocation and
\* hash steps are skipped for it: the file stays in the working directory,
\* no directory is made for it and no sidecar file is written for it.
C15_UnresolvedDependencySkipped ==
  \A n \in FileNames :
    Unresolved(n) =>
      /\ IsFile(fs, PathJoin(outcome.r.destination_dir, n))
      /\ ~Exists(fs, PathJoin(OUT, n))
      /\ \A p \in MadePaths :
           fs[p].kind = "dir" => p \in Ancestors(Norm(outcome.r.destination_dir))
      /\ \A a \in AlgorithmSet :
           /\ ~Exists(fs, PathJoin(OUT, n) \o << "." >> \o a)
           /\ ~Exists(fs, PathJoin(outcome.r.destination_dir, n) \o << "." >> \o a)

\* C15, what holds: no directory is made and no sidecar file is written for
\* a dependency file whose package name resolves to the empty name
C15_UnresolvedDependencyUnhashed ==
  \A n \in FileNames :
    Unresolved(n) =>
      /\ \A p \in MadePaths :
           fs[p].kind = "dir" => p \in Ancestors(Norm(outcome.r.destination_dir))
      /\ \A a \in AlgorithmSet :
           /\ ~Exists(fs, PathJoin(OUT, n) \o << "." >> \o a)
           /\ ~Exists(fs, PathJoin(outcome.r.destination_dir, n) \o << "." >> \o a)
=============================================================================
